---------------------------- MODULE Spec2Model ----------------------------
(***************************************************************************)
(* CommisionSaver: the WhatsApp booking channel of one bus operator.       *)
(*                                                                         *)
(* The model follows the JavaScript sources: the SQLite store              *)
(* (database.js), the booking / route / operator / message-log models,     *)
(* the webhook router (routes/webhook.js), the HTTP booking router         *)
(* (routes/booking.js, found as unnamed/part_000 lines 55-421), the        *)
(* reminder service (services/reminder.js) and the server start-up with    *)
(* its cron schedule (unnamed/part_000 lines 1-53).                         *)
(*                                                                         *)
(* Every request handler and every cron run is an asynchronous task of     *)
(* the Node.js event loop.  A task runs until its next `await` on the      *)
(* store or on the outbound messaging channel; there other tasks may run.  *)
(* One action of the model is one such uninterrupted stretch of a task.    *)
(* Time is counted in units of two hours.                                  *)
(***************************************************************************)
EXTENDS Integers, Sequences, FiniteSets, Bags, TLC

(***************************************************************************)
(* Bounds of the model.                                                    *)
(***************************************************************************)
MaxTasks == 2
\* tasks (request handlers, cron runs) in progress at the same time

MaxRequests == 2
\* requests received in one behaviour

MaxTime == 1
\* last instant of the clock

MaxFailedWrites == 1
\* reminders of one booking accepted when the store fails a reminder row

(***************************************************************************)
(* Program constants, in clock units of two hours.                         *)
(***************************************************************************)
ReminderWindow == 3
\* 6 * 60 * 60 * 1000 ms (findBookingsNeedingReminders)

DepartureTime == 4
\* '08:00', the departure time of the seeded route

OneDay == 12
\* tomorrow.setDate(tomorrow.getDate() + 1)

SeatQuota == 2
\* whatsapp_seat_quota of a trip (README, trips table; "e.g., 5")

TimeZones == {0, 5}
\* offset of the host's local time from UTC: a host on UTC, a host on UTC+10

StartTimes == {0, 8}
\* the instant the server starts at: 00:00 UTC or 16:00 UTC of day 1

Instants == UNION { {s + d : d \in 0..MaxTime} : s \in StartTimes }
\* the instants of one run

Undefined == "undefined"
\* a variable of process.env that is not set, a query parameter that is absent

(***************************************************************************)
(* Characters, phone numbers and message texts.                            *)
(***************************************************************************)
OPERATOR_PHONE == <<"9">>
\* process.env.OPERATOR_PHONE || '1234567890'

Senders == { <<"9">>, <<"+", "9">>, <<"7">>, <<"+", "7", " ">> }
\* message.from values of inbound webhook events

\* The three formats of a booking request the README documents, each for one
\* seat from A to B on day 2 at 8 o'clock.
StructuredFormat ==
    <<"R", "o", "u", "t", "e", ":", " ", "A", " ", "t", "o", " ", "B",
    ",", " ", "D", "a", "t", "e", ":", " ", "2", ",", " ", "T", "i", "m",
    "e", ":", " ", "8", ",", " ", "S", "e", "a", "t", "s", ":", " ", "1">>

CommaSeparated ==
    <<"A", " ", "t", "o", " ", "B", ",", " ", "2", ",", " ", "8", ",",
    " ", "1", " ", "s", "e", "a", "t", "s">>

SpaceSeparated ==
    <<"B", "O", "O", "K", " ", "A", " ", "B", " ", "2", " ", "8", " ",
    "1">>

DocumentedFormats == {StructuredFormat, CommaSeparated, SpaceSeparated}

Bodies == { <<"B", "O", "O", "K">>, <<" ", "b", "o", "o", "k">>,
            <<"Y", "E", "S">>, <<"y", "e", "s", " ">>,
            <<"N", "O">>, <<"h", "i">>, <<>> } \cup DocumentedFormats
\* message.text.body values of inbound text messages

MessageTypes == {"text", "image", "document"}

BOOK == <<"B", "O", "O", "K">>
YES == <<"Y", "E", "S">>
NO == <<"N", "O">>

StripChars == {" ", "+", "-", "(", ")"}

normalizePhoneNumber(phoneNumber) ==
    SelectSeq(phoneNumber, LAMBDA c : c \notin StripChars)

UpperChar(c) ==
    CASE c = "b" -> "B" [] c = "o" -> "O" [] c = "k" -> "K"
      [] c = "y" -> "Y" [] c = "e" -> "E" [] c = "s" -> "S"
      [] c = "n" -> "N" [] c = "h" -> "H" [] c = "i" -> "I"
      [] c = "a" -> "A" [] c = "m" -> "M" [] c = "t" -> "T"
      [] c = "u" -> "U"
      [] OTHER -> c

toUpperCase(s) == [i \in 1..Len(s) |-> UpperChar(s[i])]

RECURSIVE trimStart(_)
trimStart(s) ==
    IF s # <<>> /\ Head(s) = " " THEN trimStart(Tail(s)) ELSE s

RECURSIVE trimEnd(_)
trimEnd(s) ==
    IF s # <<>> /\ s[Len(s)] = " " THEN trimEnd(SubSeq(s, 1, Len(s) - 1)) ELSE s

trim(s) == trimEnd(trimStart(s))

(***************************************************************************)
(* State.                                                                  *)
(***************************************************************************)
VARIABLES
    env,           \* process.env and the host's settings the code reads
    database,      \* database.js in each server process: the start-up and dbInstance
    operators,     \* table operators: rows [phone_number, approved], id = index
    routes,        \* table routes: rows [operator_id, departure_time], id = index
    bookings,      \* table bookings: id = index
    message_logs,  \* table message_logs: rows [booking_id, type], id = index
    sent,          \* bag of the messages the provider accepted: [to, kind, booking]
    tasks,         \* the asynchronous tasks, by slot
    started,       \* number of requests received so far
    now            \* the clock

vars == <<env, database, operators, routes, bookings, message_logs, sent, tasks, started, now>>

Slots == 1..MaxTasks

IdleTask ==
    [pc |-> "idle", handler |-> "none", type |-> "none", from |-> <<>>,
     operator_phone |-> <<>>, booking |-> 0, route |-> 0,
     journey_date |-> 0, seat_count |-> 0, queue |-> <<>>, resp |-> 0,
     query |-> <<>>, body |-> "", text |-> <<>>, outcome |-> "", posted |-> 0,
     process |-> 0, db |-> 0]

SendOutcomes == {"ok", "fail"}
\* sendMessage returns the provider's answer or throws

Msg(to, kind, booking) == [to |-> to, kind |-> kind, booking |-> booking]

\* The outbox after sendMessage(to, ...) ended with `outcome`.
sendMessage(outcome, to, kind, booking) ==
    IF outcome = "ok"
    THEN sent (+) SetToBag({Msg(normalizePhoneNumber(to), kind, booking)})
    ELSE sent

(***************************************************************************)
(* The store.                                                              *)
(***************************************************************************)
\* operatorModel.findByPhone: the id of the operator row, 0 when none
findByPhone(phoneNumber) ==
    IF \E i \in 1..Len(operators) : operators[i].phone_number = phoneNumber
    THEN CHOOSE i \in 1..Len(operators) : operators[i].phone_number = phoneNumber
    ELSE 0

\* A faulty lookup that takes the row of the given id to be there.
routeFindByIdMut(id) == id

\* routeModel.findById: the id of the route row, 0 when none
routeFindById(id) == IF id \in 1..Len(routes) THEN id ELSE 0

\* A faulty lookup that reads the operators table in place of routes.
getFirstRouteMut == IF Len(operators) > 0 THEN 1 ELSE 0

\* SELECT * FROM routes ORDER BY id ASC LIMIT 1
getFirstRoute == IF Len(routes) > 0 THEN 1 ELSE 0

\* bookingModel.findById
bookingFindById(id) == IF id \in 1..Len(bookings) THEN id ELSE 0

\* A faulty create that inserts nothing when the customer has a pending
\* booking of that route and journey date (INSERT OR IGNORE under a unique
\* index).
bookingCreateMut(customer_phone, route_id, journey_date, seat_count, status) ==
    IF \E i \in 1..Len(bookings) :
          /\ bookings[i].customer_phone = customer_phone
          /\ bookings[i].route_id = route_id
          /\ bookings[i].journey_date = journey_date
          /\ bookings[i].status = status
    THEN bookings
    ELSE Append(bookings,
                [customer_phone |-> customer_phone, route_id |-> route_id,
                 journey_date |-> journey_date, seat_count |-> seat_count,
                 status |-> status, created_at |-> now])

\* bookingModel.create: INSERT INTO bookings ... ; created_at DEFAULT CURRENT_TIMESTAMP
bookingCreate(customer_phone, route_id, journey_date, seat_count, status) ==
    Append(bookings,
           [customer_phone |-> customer_phone, route_id |-> route_id,
            journey_date |-> journey_date, seat_count |-> seat_count,
            status |-> status, created_at |-> now])

\* A faulty update that writes the whole row back with the seat count of the
\* column default.
updateStatusMut(id, status) ==
    IF id \in 1..Len(bookings)
    THEN [bookings EXCEPT ![id].status = status, ![id].seat_count = 1]
    ELSE bookings

\* bookingModel.updateStatus: UPDATE bookings SET status = ? WHERE id = ?
updateStatus(id, status) ==
    IF id \in 1..Len(bookings)
    THEN [bookings EXCEPT ![id].status = status]
    ELSE bookings

\* this.changes of that UPDATE
updateChanges(id) == IF id \in 1..Len(bookings) THEN 1 ELSE 0

\* A faulty create that keeps one row per booking (INSERT OR REPLACE).
messageLogCreateMut(booking_id, type) ==
    IF \E i \in 1..Len(message_logs) : message_logs[i].booking_id = booking_id
    THEN [message_logs EXCEPT
             ![CHOOSE i \in 1..Len(message_logs) :
                   message_logs[i].booking_id = booking_id] =
                 [booking_id |-> booking_id, type |-> type]]
    ELSE Append(message_logs, [booking_id |-> booking_id, type |-> type])

\* messageLogModel.create (sent_at is written and never read)
messageLogCreate(booking_id, type) ==
    Append(message_logs, [booking_id |-> booking_id, type |-> type])

\* A faulty selection that orders by created_at ASC.
LatestPendingMut ==
    { i \in 1..Len(bookings) :
        /\ bookings[i].status = "pending"
        /\ \A j \in 1..Len(bookings) :
              bookings[j].status = "pending" =>
                  bookings[i].created_at <= bookings[j].created_at }

\* SELECT * FROM bookings WHERE status = 'pending' ORDER BY created_at DESC LIMIT 1:
\* the candidates; rows with the same created_at come in an order SQL leaves open
LatestPending ==
    { i \in 1..Len(bookings) :
        /\ bookings[i].status = "pending"
        /\ \A j \in 1..Len(bookings) :
              bookings[j].status = "pending" =>
                  bookings[j].created_at <= bookings[i].created_at }

\* Dates are day numbers, the UTC date of instant 0 being day 1.
\* new Date().toISOString().split('T')[0] is the UTC date.
Today == (now \div OneDay) + 1

Tomorrow == Today + 1

\* datetime(b.journey_date || ' ' || departure_time of its route)
Departure(b) ==
    (bookings[b].journey_date - 1) * OneDay + routes[bookings[b].route_id].departure_time

\* date.toISOString().split('T')[0]: the UTC date of instant t, as the
\* instant at which that day begins
toISODate(t) == (t \div OneDay) * OneDay

\* date.toTimeString().split(' ')[0]: the time of day of instant t on the
\* host's local clock
toTimeString(t) == (t + env.TZ) % OneDay

\* currentTimeStr, sixHoursLaterStr: the two joined into 'YYYY-MM-DD HH:MM:SS'
DateTimeStr(t) == toISODate(t) + toTimeString(t)

HasReminderLog(b) ==
    \E i \in 1..Len(message_logs) :
        message_logs[i].booking_id = b /\ message_logs[i].type = "reminder"

\* A faulty selection that lacks the join with the reminder rows of
\* message_logs.
NeedingRemindersMut ==
    { b \in 1..Len(bookings) :
        /\ bookings[b].status = "confirmed"
        /\ bookings[b].route_id \in 1..Len(routes)
        /\ DateTimeStr(now) <= Departure(b)
        /\ Departure(b) <= DateTimeStr(now + ReminderWindow) }

\* bookingModel.findBookingsNeedingReminders(currentTime): the rows selected
NeedingReminders ==
    { b \in 1..Len(bookings) :
        /\ bookings[b].status = "confirmed"
        /\ ~HasReminderLog(b)
        /\ bookings[b].route_id \in 1..Len(routes)
        /\ DateTimeStr(now) <= Departure(b)
        /\ Departure(b) <= DateTimeStr(now + ReminderWindow) }

\* ... ORDER BY b.journey_date ASC: the orders the query may return them in
ReminderOrders ==
    { q \in [1..Cardinality(NeedingReminders) -> NeedingReminders] :
        /\ \A i, j \in DOMAIN q : i # j => q[i] # q[j]
        /\ \A i, j \in DOMAIN q :
              i < j => bookings[q[i]].journey_date <= bookings[q[j]].journey_date }

(***************************************************************************)
(* Start of a task: the lowest free slot.                                  *)
(***************************************************************************)
FreeSlot(h) ==
    /\ tasks[h].pc \in {"idle", "done"}
    /\ \A g \in Slots : g < h => tasks[g].pc \notin {"idle", "done"}

\* A request arrives.
Free(h) == FreeSlot(h) /\ started < MaxRequests

\* What stays of a task that has ended: the request and its response.
Ended(t) ==
    [IdleTask EXCEPT !.pc = "done", !.handler = t.handler, !.type = t.type,
                     !.from = t.from, !.booking = t.booking, !.resp = t.resp,
                     !.query = t.query, !.body = t.body, !.text = t.text,
                     !.outcome = t.outcome, !.posted = t.posted,
                     !.process = t.process, !.db = t.db]

Finish(h, t) ==
    tasks' = [tasks EXCEPT ![h] = IF t.pc = "done" THEN Ended(t) ELSE t]

\* The bookings table when the server starts: empty, or holding the row an
\* earlier BOOK request left behind (database.sqlite outlives the process).
InitialBookings ==
    { <<>>,
      << [customer_phone |-> <<"7">>, route_id |-> 1, journey_date |-> 2,
          seat_count |-> 1, status |-> "pending", created_at |-> 0] >> }

\* Environments of the server process: a host time zone of Z, a verify token
\* of S, an access token of A and a sender identifier of P.
Envs(Z, S, A, P) ==
    [TZ : Z, WEBHOOK_VERIFY_TOKEN : S, ACCESS_TOKEN : A, PHONE_NUMBER_ID : P]

\* The routes table after seedDefaultData.
DefaultRoutes == << [operator_id |-> 1, departure_time |-> DepartureTime] >>

\* The routes table of a database file on which an earlier start ended
\* between the two inserts of seedDefaultData: the operator is there, every
\* later start finds it and skips the seed, and no route was ever inserted.
NoRoutes == <<>>

\* Server processes on the host: the directory of the repository holds one
\* database.sqlite (DB_PATH), which every process started there opens.
Processes == {1, 2}

\* database.js and startServer in a process that has not started.  pc is the
\* position of startServer, db the connection its initializeDatabase call
\* opened, connections the number of sqlite3.Database objects the process
\* has opened (a connection is named by its number), dbInstance the module
\* variable (0 for null), initializations the initializeDatabase calls made
\* by getDatabase and received the instances getDatabase has returned.
Off ==
    [pc |-> "off", db |-> 0, connections |-> 0, dbInstance |-> 0,
     initializations |-> 0, received |-> {}]

\* Process 1 is listening: its startServer has awaited initializeDatabase,
\* which left dbInstance null.
Booted ==
    [p \in Processes |->
        IF p = 1 THEN [Off EXCEPT !.pc = "listening", !.db = 1, !.connections = 1]
        ELSE Off]

\* The server has started at an instant of T in an environment of E on a
\* database file whose routes table is one of R and whose bookings table is
\* one of B: the tables exist and the default operator is there.
BootOn(E, R, B, T) ==
    /\ env \in E
    /\ database = Booted
    /\ operators = << [phone_number |-> OPERATOR_PHONE, approved |-> 1] >>
    /\ routes \in R
    /\ bookings \in B
    /\ message_logs = <<>>
    /\ sent = EmptyBag
    /\ tasks = [h \in Slots |-> IdleTask]
    /\ started = 0
    /\ now \in T

\* ... on a database file with the default operator and route seeded.
Boot(E, B, T) == BootOn(E, {DefaultRoutes}, B, T)

\* A host on UTC that starts at 00:00 with the credentials of the provider
\* set; the verify token is read by the verification endpoint only and is
\* left unset.  What depends on the time zone and on the time of day is the
\* subject of ReminderSpec, what depends on the credentials that of SendSpec.
Init == Boot(Envs({0}, {Undefined}, {"EAAG"}, {"1055"}), InitialBookings, {0})

Tick ==
    /\ now + 1 \in Instants
    /\ now' = now + 1
    /\ UNCHANGED <<env, database, operators, routes, bookings, message_logs, sent,
                   tasks, started>>


(***************************************************************************)
(* routes/webhook.js: GET /whatsapp/webhook                                 *)
(***************************************************************************)
Modes == {Undefined, "", "subscribe", "unsubscribe"}
\* req.query['hub.mode']

Tokens == {Undefined, "", "s3cret", "guess"}
\* req.query['hub.verify_token']

Challenges == {Undefined, "c1", "c2"}
\* req.query['hub.challenge']

Secrets == {Undefined, "", "s3cret"}
\* process.env.WEBHOOK_VERIFY_TOKEN: not set, set to nothing, set

\* JavaScript truthiness of a string or undefined
Truthy(x) == x \notin {Undefined, ""}

\* The body res.send(x) writes
SendBody(x) == IF x = Undefined THEN "" ELSE x

\* A faulty handler that compares before it looks whether the parameters
\* are there.
verifyMut(mode, token, challenge) ==
    IF mode = "subscribe" /\ token = env.WEBHOOK_VERIFY_TOKEN
    THEN [status |-> 200, body |-> SendBody(challenge)]
    ELSE IF Truthy(mode) /\ Truthy(token)
    THEN [status |-> 403, body |-> "Forbidden"]
    ELSE [status |-> 400, body |-> "Bad Request"]

\* The response of the handler (lines 76-90).
verify(mode, token, challenge) ==
    IF Truthy(mode) /\ Truthy(token)
    THEN IF mode = "subscribe" /\ token = env.WEBHOOK_VERIFY_TOKEN
         THEN [status |-> 200, body |-> SendBody(challenge)]
         ELSE [status |-> 403, body |-> "Forbidden"]
    ELSE [status |-> 400, body |-> "Bad Request"]

\* A verification request: the handler is synchronous.
WebhookVerify(h) ==
    /\ Free(h)
    /\ \E mode \in Modes, token \in Tokens, challenge \in Challenges :
          LET res == verify(mode, token, challenge)
          IN  Finish(h, [IdleTask EXCEPT
                            !.pc = "done",
                            !.handler = "verify",
                            !.query = [mode |-> mode, token |-> token,
                                       challenge |-> challenge],
                            !.resp = res.status,
                            !.body = res.body])
    /\ started' = started + 1
    /\ UNCHANGED <<env, database, operators, routes, bookings, message_logs, sent, now>>

(***************************************************************************)
(* routes/webhook.js: POST /whatsapp/webhook                                *)
(***************************************************************************)
\* A faulty dispatch that takes a message that is not text for a booking
\* request instead of dropping it.
DispatchMut(type, isOperator, text) ==
    IF type # "text" THEN "createBooking"
    ELSE IF isOperator
         THEN IF text = YES THEN "confirmBooking"
              ELSE IF text = NO THEN "rejectBooking"
              ELSE "unrecognized"
         ELSE IF text = BOOK THEN "createBooking"
              ELSE "unrecognized"

\* A faulty dispatch that does not look at who the sender is.
DispatchAnySender(type, isOperator, text) ==
    IF type # "text" THEN "ignore"
    ELSE IF text = YES THEN "confirmBooking"
    ELSE IF text = NO THEN "rejectBooking"
    ELSE IF text = BOOK THEN "createBooking"
    ELSE "unrecognized"

\* A faulty dispatch that takes every text of a customer for a booking
\* request.
DispatchAnyText(type, isOperator, text) ==
    IF type # "text" THEN "ignore"
    ELSE IF isOperator
         THEN IF text = YES THEN "confirmBooking"
              ELSE IF text = NO THEN "rejectBooking"
              ELSE "unrecognized"
         ELSE "createBooking"

\* Which handler an inbound message reaches (lines 118-138, 153-177).
Dispatch(type, isOperator, text) ==
    IF type # "text" THEN "ignore"
    ELSE IF isOperator
         THEN IF text = YES THEN "confirmBooking"
              ELSE IF text = NO THEN "rejectBooking"
              ELSE "unrecognized"
         ELSE IF text = BOOK THEN "createBooking"
              ELSE "unrecognized"

\* The first statement of each handler.
EntryPc(handler) ==
    CASE handler = "createBooking" -> "create"
      [] handler = "confirmBooking" -> "find"
      [] handler = "rejectBooking" -> "find"
      [] OTHER -> "done"

TargetStatus(handler) ==
    CASE handler = "confirmBooking" -> "confirmed"
      [] handler = "rejectBooking" -> "rejected"
      [] OTHER -> "none"

Deliveries == {"message", "no_entry", "no_messages", "no_from", "lookup_fails"}
\* What POST /whatsapp/webhook is handed: a message; a body without
\* entry[0].changes[0]; a change without messages (a status update); a
\* message without `from`, on which normalizePhoneNumber throws; a message
\* whose sender lookup the store fails

\* Where a delivery that is no message, or that throws before it reaches a
\* handler, ends (lines 105-108, 139-141, 142-145).
Dropped(delivery) ==
    CASE delivery = "no_entry" -> "invalid"
      [] delivery = "no_messages" -> "no_messages"
      [] OTHER -> "error"

\* A faulty handler that answers at its end, with 500 from its catch block.
RespondMut(delivery) ==
    IF delivery \in {"no_from", "lookup_fails"} THEN 500 ELSE 200

\* res.status(200).send('OK'), the first statement of the handler
Respond(delivery) == 200

\* An event delivery: respond 200, take messages[0], drop what is not text,
\* normalise the sender, look it up in operators and call the handler.
WebhookPost(h) ==
    /\ Free(h)
    /\ \E delivery \in Deliveries, from \in Senders, type \in MessageTypes,
          body \in Bodies :
          /\ type # "text" => body = <<>>
          /\ delivery \in {"no_entry", "no_messages"}
                => from = OPERATOR_PHONE /\ type = "text" /\ body = <<>>
          /\ delivery = "no_from" => from = OPERATOR_PHONE
          /\ LET normalizedFrom == normalizePhoneNumber(from)
                 operator == findByPhone(normalizedFrom)
                 messageText == trim(toUpperCase(body))
                 handler == Dispatch(type, operator # 0, messageText)
             IN  IF delivery \in {"no_entry", "no_messages"}
                 THEN Finish(h, [IdleTask EXCEPT
                                    !.pc = "done",
                                    !.handler = Dropped(delivery),
                                    !.resp = Respond(delivery)])
                 ELSE IF type = "text" /\ delivery \in {"no_from", "lookup_fails"}
                 THEN Finish(h, [IdleTask EXCEPT
                                    !.pc = "done",
                                    !.handler = Dropped(delivery),
                                    !.type = type,
                                    !.from = IF delivery = "no_from"
                                             THEN <<>> ELSE normalizedFrom,
                                    !.resp = Respond(delivery)])
                 ELSE Finish(h, [IdleTask EXCEPT
                                    !.pc = EntryPc(handler),
                                    !.handler = handler,
                                    !.type = type,
                                    !.from = IF delivery = "no_from"
                                             THEN <<>> ELSE normalizedFrom,
                                    !.text = messageText,
                                    !.resp = Respond(delivery)])
    /\ started' = started + 1
    /\ UNCHANGED <<env, database, operators, routes, bookings, message_logs, sent, now>>

(***************************************************************************)
(* routes/webhook.js: createBooking(customerPhone)                          *)
(***************************************************************************)
\* getFirstRoute, then bookingModel.create (or the "no routes" reply).
CreateBookingInsert(h) ==
    /\ tasks[h].pc = "create"
    /\ tasks[h].handler = "createBooking"
    /\ LET route == getFirstRoute
       IN  IF route = 0
           THEN \E outcome \in SendOutcomes :
                   /\ sent' = sendMessage(outcome, tasks[h].from, "no_routes", 0)
                   /\ Finish(h, [tasks[h] EXCEPT
                                    !.pc = IF outcome = "ok" THEN "done" ELSE "catch"])
                   /\ UNCHANGED bookings
           ELSE /\ bookings' = bookingCreate(tasks[h].from, route, Tomorrow, 1, "pending")
                /\ Finish(h, [tasks[h] EXCEPT
                                 !.pc = "notify_operator",
                                 !.booking = Len(bookings) + 1,
                                 !.route = route])
                /\ UNCHANGED sent
    /\ UNCHANGED <<env, database, operators, routes, message_logs, started, now>>

\* operatorModel.findByPhone(OPERATOR_PHONE), routeModel.findById, then the
\* "New Booking Request!" message to the operator.
CreateBookingNotifyOperator(h) ==
    /\ tasks[h].pc = "notify_operator"
    /\ tasks[h].handler = "createBooking"
    /\ LET operator == findByPhone(OPERATOR_PHONE)
       IN  IF operator = 0
           THEN /\ Finish(h, [tasks[h] EXCEPT !.pc = "done"])
                /\ UNCHANGED sent
           ELSE IF routeFindById(tasks[h].route) = 0
           THEN \* routeDetails.source of null throws
                /\ Finish(h, [tasks[h] EXCEPT !.pc = "catch"])
                /\ UNCHANGED sent
           ELSE \E outcome \in SendOutcomes :
                   /\ sent' = sendMessage(outcome, operators[operator].phone_number,
                                          "booking_request", tasks[h].booking)
                   /\ Finish(h, [tasks[h] EXCEPT
                                    !.pc = IF outcome = "ok" THEN "log" ELSE "catch"])
    /\ UNCHANGED <<env, database, operators, routes, bookings, message_logs, started, now>>

\* messageLogModel.create({booking_id, type: 'notification'})
CreateBookingLog(h) ==
    /\ tasks[h].pc = "log"
    /\ tasks[h].handler = "createBooking"
    /\ message_logs' = messageLogCreate(tasks[h].booking, "notification")
    /\ Finish(h, [tasks[h] EXCEPT !.pc = "notify_customer"])
    /\ UNCHANGED <<env, database, operators, routes, bookings, sent, started, now>>

\* The "Your booking request has been received!" message to the customer.
CreateBookingNotifyCustomer(h) ==
    /\ tasks[h].pc = "notify_customer"
    /\ tasks[h].handler = "createBooking"
    /\ \E outcome \in SendOutcomes :
          /\ sent' = sendMessage(outcome, tasks[h].from, "booking_received",
                                 tasks[h].booking)
          /\ Finish(h, [tasks[h] EXCEPT
                           !.pc = IF outcome = "ok" THEN "done" ELSE "catch"])
    /\ UNCHANGED <<env, database, operators, routes, bookings, message_logs, started, now>>

\* catch (error): the apology to the customer; its own failure is only logged.
CreateBookingCatch(h) ==
    /\ tasks[h].pc = "catch"
    /\ tasks[h].handler = "createBooking"
    /\ \E outcome \in SendOutcomes :
          sent' = sendMessage(outcome, tasks[h].from, "booking_error", 0)
    /\ Finish(h, [tasks[h] EXCEPT !.pc = "done"])
    /\ UNCHANGED <<env, database, operators, routes, bookings, message_logs, started, now>>

(***************************************************************************)
(* routes/webhook.js: confirmBooking / rejectBooking(operatorPhone)         *)
(* The two functions differ in the status they write and in their texts.   *)
(***************************************************************************)
IsDecision(h) == tasks[h].handler \in {"confirmBooking", "rejectBooking"}

\* getLatestPendingBooking, and the "No pending bookings found" reply.
DecisionFind(h) ==
    /\ tasks[h].pc = "find"
    /\ IsDecision(h)
    /\ IF LatestPending = {}
       THEN \E outcome \in SendOutcomes :
               /\ sent' = sendMessage(outcome, tasks[h].from, "no_pending", 0)
               /\ Finish(h, [tasks[h] EXCEPT
                                !.pc = IF outcome = "ok" THEN "done" ELSE "catch"])
       ELSE \E b \in LatestPending :
               /\ Finish(h, [tasks[h] EXCEPT
                                !.pc = "update",
                                !.booking = b,
                                !.route = bookings[b].route_id])
               /\ UNCHANGED sent
    /\ UNCHANGED <<env, database, operators, routes, bookings, message_logs, started, now>>

\* bookingModel.updateStatus(booking.id, 'confirmed' | 'rejected')
DecisionUpdate(h) ==
    /\ tasks[h].pc = "update"
    /\ IsDecision(h)
    /\ bookings' = updateStatus(tasks[h].booking, TargetStatus(tasks[h].handler))
    /\ Finish(h, [tasks[h] EXCEPT
                     !.pc = IF updateChanges(tasks[h].booking) = 0
                            THEN "done" ELSE "notify_customer"])
    /\ UNCHANGED <<env, database, operators, routes, message_logs, sent, started, now>>

\* A faulty handler that catches the failure of the send to the customer on
\* the spot and goes on to the log write.
DecisionNotifyCustomerMut(h) ==
    /\ tasks[h].pc = "notify_customer"
    /\ IsDecision(h)
    /\ IF routeFindById(tasks[h].route) = 0
       THEN /\ Finish(h, [tasks[h] EXCEPT !.pc = "catch"])
            /\ UNCHANGED sent
       ELSE \E outcome \in SendOutcomes :
               /\ sent' = sendMessage(outcome,
                                      bookings[tasks[h].booking].customer_phone,
                                      TargetStatus(tasks[h].handler), tasks[h].booking)
               /\ Finish(h, [tasks[h] EXCEPT !.pc = "log"])
    /\ UNCHANGED <<env, database, operators, routes, bookings, message_logs, started, now>>

\* routeModel.findById, then the decision message to the customer.
DecisionNotifyCustomer(h) ==
    /\ tasks[h].pc = "notify_customer"
    /\ IsDecision(h)
    /\ IF routeFindById(tasks[h].route) = 0
       THEN \* route.source of null throws
            /\ Finish(h, [tasks[h] EXCEPT !.pc = "catch"])
            /\ UNCHANGED sent
       ELSE \E outcome \in SendOutcomes :
               /\ sent' = sendMessage(outcome,
                                      bookings[tasks[h].booking].customer_phone,
                                      TargetStatus(tasks[h].handler), tasks[h].booking)
               /\ Finish(h, [tasks[h] EXCEPT
                                !.pc = IF outcome = "ok" THEN "log" ELSE "catch"])
    /\ UNCHANGED <<env, database, operators, routes, bookings, message_logs, started, now>>

\* messageLogModel.create({booking_id, type: 'confirmation' | 'rejection'})
DecisionLog(h) ==
    /\ tasks[h].pc = "log"
    /\ IsDecision(h)
    /\ message_logs' = messageLogCreate(tasks[h].booking,
                           IF TargetStatus(tasks[h].handler) = "confirmed"
                           THEN "confirmation" ELSE "rejection")
    /\ Finish(h, [tasks[h] EXCEPT !.pc = "notify_operator"])
    /\ UNCHANGED <<env, database, operators, routes, bookings, sent, started, now>>

\* "Booking N has been confirmed and customer has been notified." to the operator
DecisionNotifyOperator(h) ==
    /\ tasks[h].pc = "notify_operator"
    /\ IsDecision(h)
    /\ \E outcome \in SendOutcomes :
          /\ sent' = sendMessage(outcome, tasks[h].from, "decision_done",
                                 tasks[h].booking)
          /\ Finish(h, [tasks[h] EXCEPT
                           !.pc = IF outcome = "ok" THEN "done" ELSE "catch"])
    /\ UNCHANGED <<env, database, operators, routes, bookings, message_logs, started, now>>

\* A faulty catch block that rolls the status update back before it
\* apologizes.
DecisionCatchMut(h) ==
    /\ tasks[h].pc = "catch"
    /\ IsDecision(h)
    /\ \E outcome \in SendOutcomes :
          sent' = sendMessage(outcome, tasks[h].from, "decision_error", 0)
    /\ bookings' = updateStatus(tasks[h].booking, "pending")
    /\ Finish(h, [tasks[h] EXCEPT !.pc = "done"])
    /\ UNCHANGED <<env, database, operators, routes, message_logs, started, now>>

\* catch (error): the apology to the operator; its own failure is only logged.
DecisionCatch(h) ==
    /\ tasks[h].pc = "catch"
    /\ IsDecision(h)
    /\ \E outcome \in SendOutcomes :
          sent' = sendMessage(outcome, tasks[h].from, "decision_error", 0)
    /\ Finish(h, [tasks[h] EXCEPT !.pc = "done"])
    /\ UNCHANGED <<env, database, operators, routes, bookings, message_logs, started, now>>

(***************************************************************************)
(* routes/booking.js (unnamed/part_000): POST /booking/create               *)
(***************************************************************************)
CustomerPhones == { <<>>, <<"7">> }
\* customer_phone of the request body, <<>> when missing

RouteIds == {0, 1, 2}
\* route_id of the request body, 0 when missing

JourneyDates == {0, 1}
\* journey_date of the request body, 0 when missing

SeatCounts == {0, 2, -1}
\* seat_count of the request body, 0 when missing (or 0)

\* Validation of the request and choice of the route.
HttpCreatePost(h) ==
    /\ Free(h)
    /\ \E customer_phone \in CustomerPhones, route_id \in RouteIds,
          journey_date \in JourneyDates, seat_count \in SeatCounts :
          LET t == [IdleTask EXCEPT !.handler = "http_create",
                                    !.from = customer_phone,
                                    !.query = [customer_phone |-> customer_phone,
                                               route_id |-> route_id]]
              route == IF route_id # 0 THEN routeFindById(route_id)
                       ELSE getFirstRoute
          IN  IF customer_phone = <<>>
              THEN Finish(h, [t EXCEPT !.pc = "done", !.resp = 400])
              ELSE IF route = 0
              THEN Finish(h, [t EXCEPT !.pc = "done", !.resp = 404])
              ELSE Finish(h, [t EXCEPT
                                 !.pc = "create",
                                 !.route = route,
                                 !.journey_date = IF journey_date # 0
                                                  THEN journey_date ELSE Tomorrow,
                                 !.seat_count = IF seat_count # 0
                                                THEN seat_count ELSE 1])
    /\ started' = started + 1
    /\ UNCHANGED <<env, database, operators, routes, bookings, message_logs, sent, now>>

\* bookingModel.create({..., status: 'pending'})
HttpCreateInsert(h) ==
    /\ tasks[h].pc = "create"
    /\ tasks[h].handler = "http_create"
    /\ bookings' = bookingCreate(tasks[h].from, tasks[h].route,
                                 tasks[h].journey_date, tasks[h].seat_count, "pending")
    /\ Finish(h, [tasks[h] EXCEPT !.pc = "notify_operator",
                                  !.booking = Len(bookings) + 1])
    /\ UNCHANGED <<env, database, operators, routes, message_logs, sent, started, now>>

\* The operator lookup and the "New Booking Request!" message; a throw ends
\* in the catch block, which responds 500.
HttpCreateNotifyOperator(h) ==
    /\ tasks[h].pc = "notify_operator"
    /\ tasks[h].handler = "http_create"
    /\ LET operator == findByPhone(OPERATOR_PHONE)
       IN  IF operator = 0
           THEN /\ Finish(h, [tasks[h] EXCEPT !.pc = "done", !.resp = 200])
                /\ UNCHANGED sent
           ELSE IF routeFindById(tasks[h].route) = 0
           THEN /\ Finish(h, [tasks[h] EXCEPT !.pc = "done", !.resp = 500])
                /\ UNCHANGED sent
           ELSE \E outcome \in SendOutcomes :
                   /\ sent' = sendMessage(outcome, operators[operator].phone_number,
                                          "booking_request", tasks[h].booking)
                   /\ IF outcome = "ok"
                      THEN Finish(h, [tasks[h] EXCEPT !.pc = "log"])
                      ELSE Finish(h, [tasks[h] EXCEPT !.pc = "done", !.resp = 500])
    /\ UNCHANGED <<env, database, operators, routes, bookings, message_logs, started, now>>

\* messageLogModel.create({booking_id, type: 'notification'})
HttpCreateLog(h) ==
    /\ tasks[h].pc = "log"
    /\ tasks[h].handler = "http_create"
    /\ message_logs' = messageLogCreate(tasks[h].booking, "notification")
    /\ Finish(h, [tasks[h] EXCEPT !.pc = "notify_customer"])
    /\ UNCHANGED <<env, database, operators, routes, bookings, sent, started, now>>

\* The message to the customer, then 201; 500 when the send throws.
HttpCreateNotifyCustomer(h) ==
    /\ tasks[h].pc = "notify_customer"
    /\ tasks[h].handler = "http_create"
    /\ \E outcome \in SendOutcomes :
          /\ sent' = sendMessage(outcome, tasks[h].from, "booking_received",
                                 tasks[h].booking)
          /\ Finish(h, [tasks[h] EXCEPT
                           !.pc = "done",
                           !.resp = IF outcome = "ok" THEN 201 ELSE 500])
    /\ UNCHANGED <<env, database, operators, routes, bookings, message_logs, started, now>>

(***************************************************************************)
(* routes/booking.js: POST /booking/confirm and POST /booking/reject        *)
(***************************************************************************)
HttpDecisions == {"http_confirm", "http_reject"}

BookingIds == {0, 1, 2}
\* booking_id of the request body, 0 when missing

OperatorPhones == { <<>>, OPERATOR_PHONE }
\* operator_phone of the request body, <<>> when missing

HttpTargetStatus(handler) ==
    IF handler = "http_confirm" THEN "confirmed" ELSE "rejected"

\* A faulty handler that lacks the check of booking.status.
HttpDecisionPostMut(h) ==
    /\ Free(h)
    /\ \E handler \in HttpDecisions, booking_id \in BookingIds,
          operator_phone \in OperatorPhones :
          \E booking \in IF booking_id # 0 THEN {bookingFindById(booking_id)}
                         ELSE IF LatestPending = {} THEN {0} ELSE LatestPending :
             LET t == [IdleTask EXCEPT !.handler = handler,
                                       !.operator_phone = operator_phone,
                                       !.booking = booking]
             IN  IF booking = 0
                 THEN Finish(h, [t EXCEPT !.pc = "done", !.resp = 404])
                 ELSE Finish(h, [t EXCEPT !.pc = "update",
                                          !.from = bookings[booking].customer_phone,
                                          !.route = bookings[booking].route_id])
    /\ started' = started + 1
    /\ UNCHANGED <<env, database, operators, routes, bookings, message_logs, sent, now>>

\* getLatestPendingBooking(booking_id) and the two checks on its result.
HttpDecisionPost(h) ==
    /\ Free(h)
    /\ \E handler \in HttpDecisions, booking_id \in BookingIds,
          operator_phone \in OperatorPhones :
          \E booking \in IF booking_id # 0 THEN {bookingFindById(booking_id)}
                         ELSE IF LatestPending = {} THEN {0} ELSE LatestPending :
             LET t == [IdleTask EXCEPT !.handler = handler,
                                       !.operator_phone = operator_phone,
                                       !.booking = booking]
             IN  IF booking = 0
                 THEN Finish(h, [t EXCEPT !.pc = "done", !.resp = 404])
                 ELSE IF bookings[booking].status # "pending"
                 THEN Finish(h, [t EXCEPT !.pc = "done", !.resp = 400])
                 ELSE Finish(h, [t EXCEPT !.pc = "update",
                                          !.from = bookings[booking].customer_phone,
                                          !.route = bookings[booking].route_id])
    /\ started' = started + 1
    /\ UNCHANGED <<env, database, operators, routes, bookings, message_logs, sent, now>>

\* bookingModel.updateStatus(booking.id, 'confirmed' | 'rejected')
HttpDecisionUpdate(h) ==
    /\ tasks[h].pc = "update"
    /\ tasks[h].handler \in HttpDecisions
    /\ bookings' = updateStatus(tasks[h].booking, HttpTargetStatus(tasks[h].handler))
    /\ IF updateChanges(tasks[h].booking) = 0
       THEN Finish(h, [tasks[h] EXCEPT !.pc = "done", !.resp = 500])
       ELSE Finish(h, [tasks[h] EXCEPT !.pc = "notify_customer"])
    /\ UNCHANGED <<env, database, operators, routes, message_logs, sent, started, now>>

\* routeModel.findById, then the decision message to the customer.
HttpDecisionNotifyCustomer(h) ==
    /\ tasks[h].pc = "notify_customer"
    /\ tasks[h].handler \in HttpDecisions
    /\ IF routeFindById(tasks[h].route) = 0
       THEN /\ Finish(h, [tasks[h] EXCEPT !.pc = "done", !.resp = 404])
            /\ UNCHANGED sent
       ELSE \E outcome \in SendOutcomes :
               /\ sent' = sendMessage(outcome, tasks[h].from,
                                      HttpTargetStatus(tasks[h].handler),
                                      tasks[h].booking)
               /\ IF outcome = "ok"
                  THEN Finish(h, [tasks[h] EXCEPT !.pc = "log"])
                  ELSE Finish(h, [tasks[h] EXCEPT !.pc = "done", !.resp = 500])
    /\ UNCHANGED <<env, database, operators, routes, bookings, message_logs, started, now>>

\* messageLogModel.create, then 200 unless the operator is to be told.
HttpDecisionLog(h) ==
    /\ tasks[h].pc = "log"
    /\ tasks[h].handler \in HttpDecisions
    /\ message_logs' = messageLogCreate(tasks[h].booking,
                           IF tasks[h].handler = "http_confirm"
                           THEN "confirmation" ELSE "rejection")
    /\ IF tasks[h].operator_phone # <<>>
       THEN Finish(h, [tasks[h] EXCEPT !.pc = "notify_operator"])
       ELSE Finish(h, [tasks[h] EXCEPT !.pc = "done", !.resp = 200])
    /\ UNCHANGED <<env, database, operators, routes, bookings, sent, started, now>>

\* The message to operator_phone, then 200; 500 when the send throws.
HttpDecisionNotifyOperator(h) ==
    /\ tasks[h].pc = "notify_operator"
    /\ tasks[h].handler \in HttpDecisions
    /\ \E outcome \in SendOutcomes :
          /\ sent' = sendMessage(outcome, tasks[h].operator_phone, "decision_done",
                                 tasks[h].booking)
          /\ Finish(h, [tasks[h] EXCEPT
                           !.pc = "done",
                           !.resp = IF outcome = "ok" THEN 200 ELSE 500])
    /\ UNCHANGED <<env, database, operators, routes, bookings, message_logs, started, now>>

(***************************************************************************)
(* Server start-up (unnamed/part_000 lines 25-51) and services/reminder.js  *)
(***************************************************************************)
\* Next task of a sweep whose current booking is dealt with.
SweepStep(t) ==
    IF Len(t.queue) <= 1
    THEN [t EXCEPT !.pc = "done", !.queue = <<>>]
    ELSE [t EXCEPT !.pc = "remind", !.queue = Tail(t.queue)]

\* cron.schedule('*/30 * * * *', ...): a run of sendReminders begins with
\* findBookingsNeedingReminders(new Date()).  It is the only scheduled job.
CronSendReminders(h) ==
    /\ FreeSlot(h)
    /\ \E q \in ReminderOrders :
          Finish(h, [IdleTask EXCEPT
                        !.handler = "sendReminders",
                        !.pc = IF q = <<>> THEN "done" ELSE "remind",
                        !.queue = q])
    /\ UNCHANGED <<env, database, operators, routes, bookings, message_logs, sent,
                   started, now>>

\* A faulty sweep whose try block encloses the loop: a send that throws ends
\* the sweep.
SendRemindersSendMut(h) ==
    /\ tasks[h].pc = "remind"
    /\ tasks[h].handler = "sendReminders"
    /\ LET b == Head(tasks[h].queue)
       IN  IF routeFindById(bookings[b].route_id) = 0
           THEN /\ Finish(h, SweepStep(tasks[h]))
                /\ UNCHANGED sent
           ELSE \E outcome \in SendOutcomes :
                   /\ sent' = sendMessage(outcome, bookings[b].customer_phone,
                                          "reminder", b)
                   /\ IF outcome = "ok"
                      THEN Finish(h, [tasks[h] EXCEPT !.pc = "log"])
                      ELSE Finish(h, [tasks[h] EXCEPT !.pc = "done", !.queue = <<>>])
    /\ UNCHANGED <<env, database, operators, routes, bookings, message_logs, started, now>>

\* for (const booking of bookings): route lookup and the reminder message; a
\* missing route or a throw goes on to the next booking.
SendRemindersSend(h) ==
    /\ tasks[h].pc = "remind"
    /\ tasks[h].handler = "sendReminders"
    /\ LET b == Head(tasks[h].queue)
       IN  IF routeFindById(bookings[b].route_id) = 0
           THEN /\ Finish(h, SweepStep(tasks[h]))
                /\ UNCHANGED sent
           ELSE \E outcome \in SendOutcomes :
                   /\ sent' = sendMessage(outcome, bookings[b].customer_phone,
                                          "reminder", b)
                   /\ IF outcome = "ok"
                      THEN Finish(h, [tasks[h] EXCEPT !.pc = "log"])
                      ELSE Finish(h, SweepStep(tasks[h]))
    /\ UNCHANGED <<env, database, operators, routes, bookings, message_logs, started, now>>

\* messageLogModel.create({booking_id, type: 'reminder'}); when the store
\* fails the write, the catch block logs the error and the loop goes on.
SendRemindersLog(h) ==
    /\ tasks[h].pc = "log"
    /\ tasks[h].handler = "sendReminders"
    /\ LET b == Head(tasks[h].queue)
           reminder == Msg(normalizePhoneNumber(bookings[b].customer_phone),
                           "reminder", b)
       IN  \/ message_logs' = messageLogCreate(b, "reminder")
           \/ /\ CopiesIn(reminder, sent) <= MaxFailedWrites
              /\ message_logs' = message_logs
    /\ Finish(h, SweepStep(tasks[h]))
    /\ UNCHANGED <<env, database, operators, routes, bookings, sent, started, now>>

(***************************************************************************)
(* services/whatsapp.js (routes/webhook.js lines 410-492): sendMessage       *)
(***************************************************************************)
AccessTokens == {Undefined, "", "EAAG"}
\* process.env.ACCESS_TOKEN: not set, set to nothing, set

PhoneNumberIds == {Undefined, "", "1055"}
\* process.env.PHONE_NUMBER_ID: not set, set to nothing, set

Recipients == { <<>>, <<"7">>, <<"+", "7", " ">> }
\* phoneNumber, <<>> when missing (undefined, null or '')

Texts == {"", "reminder"}
\* message, "" when missing or empty

Answers == {"accepted", "rejected", "no_response", "not_sent"}
\* What axios.post ends with: a 2xx response; an error with a response (the
\* provider's 4xx or 5xx); an error with a request and no response; an error
\* raised before the request was made

\* A faulty sendMessage whose catch block logs the provider's error response
\* and does not throw.
sendMessageCallMut(phoneNumber, message, answer) ==
    IF ~Truthy(env.ACCESS_TOKEN)
    THEN [outcome |-> "fail", error |-> "ACCESS_TOKEN", posted |-> 0]
    ELSE IF ~Truthy(env.PHONE_NUMBER_ID)
    THEN [outcome |-> "fail", error |-> "PHONE_NUMBER_ID", posted |-> 0]
    ELSE IF phoneNumber = <<>>
    THEN [outcome |-> "fail", error |-> "phoneNumber", posted |-> 0]
    ELSE IF ~Truthy(message)
    THEN [outcome |-> "fail", error |-> "message", posted |-> 0]
    ELSE IF answer \in {"accepted", "rejected"}
    THEN [outcome |-> "ok", error |-> "", posted |-> 1]
    ELSE [outcome |-> "fail", error |-> answer, posted |-> 1]

\* One call of sendMessage (lines 434-488): whether it returns ("ok") or
\* throws ("fail"), what it throws about, and the number of requests it
\* posted to the provider.
sendMessageCall(phoneNumber, message, answer) ==
    IF ~Truthy(env.ACCESS_TOKEN)
    THEN [outcome |-> "fail", error |-> "ACCESS_TOKEN", posted |-> 0]
    ELSE IF ~Truthy(env.PHONE_NUMBER_ID)
    THEN [outcome |-> "fail", error |-> "PHONE_NUMBER_ID", posted |-> 0]
    ELSE IF phoneNumber = <<>>
    THEN [outcome |-> "fail", error |-> "phoneNumber", posted |-> 0]
    ELSE IF ~Truthy(message)
    THEN [outcome |-> "fail", error |-> "message", posted |-> 0]
    ELSE IF answer = "accepted"
    THEN [outcome |-> "ok", error |-> "", posted |-> 1]
    ELSE [outcome |-> "fail", error |-> answer, posted |-> 1]

\* A caller awaits sendMessage(phoneNumber, message).
SendMessageCall(h) ==
    /\ Free(h)
    /\ \E phoneNumber \in Recipients, message \in Texts, answer \in Answers :
          LET res == sendMessageCall(phoneNumber, message, answer)
          IN  /\ sent' = sendMessage(res.outcome, phoneNumber, message, 0)
              /\ Finish(h, [IdleTask EXCEPT
                                !.pc = "done",
                                !.handler = "sendMessage",
                                !.query = [phoneNumber |-> phoneNumber,
                                           message |-> message,
                                           answer |-> answer],
                                !.outcome = res.outcome,
                                !.body = res.error,
                                !.posted = res.posted])
    /\ started' = started + 1
    /\ UNCHANGED <<env, database, operators, routes, bookings, message_logs, now>>

\* The continuation of task h after an await.
Step(h) ==
    \/ CreateBookingInsert(h)
    \/ CreateBookingNotifyOperator(h)
    \/ CreateBookingLog(h)
    \/ CreateBookingNotifyCustomer(h)
    \/ CreateBookingCatch(h)
    \/ DecisionFind(h)
    \/ DecisionUpdate(h)
    \/ DecisionNotifyCustomer(h)
    \/ DecisionLog(h)
    \/ DecisionNotifyOperator(h)
    \/ DecisionCatch(h)
    \/ HttpCreateInsert(h)
    \/ HttpCreateNotifyOperator(h)
    \/ HttpCreateLog(h)
    \/ HttpCreateNotifyCustomer(h)
    \/ HttpDecisionUpdate(h)
    \/ HttpDecisionNotifyCustomer(h)
    \/ HttpDecisionLog(h)
    \/ HttpDecisionNotifyOperator(h)
    \/ SendRemindersSend(h)
    \/ SendRemindersLog(h)

Next ==
    \/ Tick
    \/ \E h \in Slots :
          \/ WebhookPost(h)
          \/ HttpCreatePost(h)
          \/ HttpDecisionPost(h)
          \/ CronSendReminders(h)
          \/ Step(h)

Spec == Init /\ [][Next]_vars

\* The event loop runs every continuation that is ready, the cron trigger
\* keeps firing and time passes; requests may or may not arrive.
LiveSpec ==
    /\ Init
    /\ [][Next]_vars
    /\ WF_vars(Tick)
    /\ \A h \in Slots : WF_vars(Step(h))
    /\ WF_vars(\E h \in Slots : CronSendReminders(h))

\* The bookings table of a server that starts with four bookings of customer
\* 7 on the seeded route: confirmed ones for day 1 and for day 2, a pending
\* one for day 1 and a rejected one for day 2.  None of their notifications
\* was logged (the sends had failed).
ReminderBookings ==
    << [customer_phone |-> <<"7">>, route_id |-> 1, journey_date |-> 1,
        seat_count |-> 1, status |-> "confirmed", created_at |-> 0],
       [customer_phone |-> <<"7">>, route_id |-> 1, journey_date |-> 2,
        seat_count |-> 1, status |-> "confirmed", created_at |-> 0],
       [customer_phone |-> <<"7">>, route_id |-> 1, journey_date |-> 1,
        seat_count |-> 1, status |-> "pending", created_at |-> 0],
       [customer_phone |-> <<"7">>, route_id |-> 1, journey_date |-> 2,
        seat_count |-> 1, status |-> "rejected", created_at |-> 0] >>

ReminderInit ==
    Boot(Envs(TimeZones, {Undefined}, {"EAAG"}, {"1055"}), {ReminderBookings},
         StartTimes)

\* The cron job on its own: the trigger fires, sweeps run and overlap, the
\* clock advances and no request arrives.
ReminderNext ==
    \/ Tick
    \/ \E h \in Slots :
          \/ CronSendReminders(h)
          \/ SendRemindersSend(h)
          \/ SendRemindersLog(h)

ReminderSpec == ReminderInit /\ [][ReminderNext]_vars

\* The verification endpoint on its own, under every setting of the token.
VerifyInit == Boot(Envs({0}, Secrets, {"EAAG"}, {"1055"}), InitialBookings, {0})

VerifyNext == \E h \in Slots : WebhookVerify(h)

VerifySpec == VerifyInit /\ [][VerifyNext]_vars

\* The webhook on a database file without a route (and so without a
\* booking): deliveries arrive and their handlers run.
NoRouteInit ==
    BootOn(Envs({0}, {Undefined}, {"EAAG"}, {"1055"}), {NoRoutes}, {<<>>}, {0})

NoRouteNext ==
    \E h \in Slots :
        \/ WebhookPost(h)
        \/ CreateBookingInsert(h)
        \/ CreateBookingCatch(h)
        \/ DecisionFind(h)
        \/ DecisionCatch(h)

NoRouteSpec == NoRouteInit /\ [][NoRouteNext]_vars

\* The outbound channel on its own, under every setting of the credentials.
SendInit ==
    Boot(Envs({0}, {Undefined}, AccessTokens, PhoneNumberIds), {<<>>}, {0})

SendNext == \E h \in Slots : SendMessageCall(h)

SendSpec == SendInit /\ [][SendNext]_vars

(***************************************************************************)
(* database.js: initializeDatabase, seedDefaultData, getDatabase, and the   *)
(* start-up of a server process (unnamed/part_000 lines 25-51)              *)
(***************************************************************************)
SeedPcs == {"seed_check", "seed_operator", "seed_route"}
\* the statements of seedDefaultData: the SELECT and the two INSERTs

SeedNexts == {"seed_operator", "seed_route", "resolved", "rejected"}

\* The statement of seedDefaultData(db) at position pc runs on the database
\* file and the call goes on at `next`.  Each statement is a transaction of
\* its own; operators.phone_number is UNIQUE, so the INSERT of a phone number
\* that is there fails and the promise is rejected.
seedDefaultData(pc, next) ==
    CASE pc = "seed_check" ->
            /\ next = IF findByPhone(OPERATOR_PHONE) # 0
                      THEN "resolved"
                      ELSE "seed_operator"
            /\ UNCHANGED <<operators, routes>>
      [] pc = "seed_operator" ->
            IF findByPhone(OPERATOR_PHONE) # 0
            THEN /\ next = "rejected"
                 /\ UNCHANGED <<operators, routes>>
            ELSE /\ operators' = Append(operators,
                                        [phone_number |-> OPERATOR_PHONE,
                                         approved |-> 1])
                 /\ next = "seed_route"
                 /\ UNCHANGED routes
      [] pc = "seed_route" ->
            /\ routes' = Append(routes,
                                [operator_id |-> findByPhone(OPERATOR_PHONE),
                                 departure_time |-> DepartureTime])
            /\ next = "resolved"
            /\ UNCHANGED operators

\* startServer() in process p: initializeDatabase() opens a connection of
\* its own and creates the tables that are not there.
StartServer(p) ==
    /\ database[p].pc = "off"
    /\ database' = [database EXCEPT
                       ![p].pc = "seed_check",
                       ![p].connections = @ + 1,
                       ![p].db = database[p].connections + 1]
    /\ UNCHANGED <<env, operators, routes, bookings, message_logs, sent, tasks,
                   started, now>>

\* The seeding of the start-up: when it resolves the server listens, when it
\* rejects startServer logs the failure and calls process.exit(1).
StartServerSeed(p) ==
    /\ database[p].pc \in SeedPcs
    /\ \E next \in SeedNexts :
          /\ seedDefaultData(database[p].pc, next)
          /\ database' = [database EXCEPT
                             ![p].pc = CASE next = "resolved" -> "listening"
                                         [] next = "rejected" -> "exited"
                                         [] OTHER -> next]
    /\ UNCHANGED <<env, bookings, message_logs, sent, tasks, started, now>>

\* A model function of a request in process p calls getDatabase(): it returns
\* dbInstance when that is set, and begins initializeDatabase() on a new
\* connection when it is null.
GetDatabase(h) ==
    /\ Free(h)
    /\ started' = started + 1
    /\ \E p \in Processes :
          /\ database[p].pc = "listening"
          /\ IF database[p].dbInstance # 0
             THEN /\ database' = [database EXCEPT
                                     ![p].received = @ \cup {database[p].dbInstance}]
                  /\ Finish(h, [IdleTask EXCEPT
                                   !.pc = "done",
                                   !.handler = "getDatabase",
                                   !.process = p,
                                   !.db = database[p].dbInstance,
                                   !.outcome = "ok"])
             ELSE /\ database' = [database EXCEPT
                                     ![p].connections = @ + 1,
                                     ![p].initializations = @ + 1]
                  /\ Finish(h, [IdleTask EXCEPT
                                   !.pc = "seed_check",
                                   !.handler = "getDatabase",
                                   !.process = p,
                                   !.db = database[p].connections + 1])
    /\ UNCHANGED <<env, operators, routes, bookings, message_logs, sent, now>>

\* The seeding of an initialization getDatabase began: when it resolves,
\* `dbInstance = await initializeDatabase(); return dbInstance;` goes on in one
\* stretch; when it rejects, getDatabase throws and dbInstance stays null.
GetDatabaseSeed(h) ==
    /\ tasks[h].handler = "getDatabase"
    /\ tasks[h].pc \in SeedPcs
    /\ \E next \in SeedNexts :
          /\ seedDefaultData(tasks[h].pc, next)
          /\ CASE next = "resolved" ->
                    /\ database' = [database EXCEPT
                                       ![tasks[h].process].dbInstance = tasks[h].db,
                                       ![tasks[h].process].received =
                                           @ \cup {tasks[h].db}]
                    /\ Finish(h, [tasks[h] EXCEPT !.pc = "done", !.outcome = "ok"])
               [] next = "rejected" ->
                    /\ Finish(h, [tasks[h] EXCEPT !.pc = "done", !.outcome = "fail"])
                    /\ UNCHANGED database
               [] OTHER ->
                    /\ Finish(h, [tasks[h] EXCEPT !.pc = next])
                    /\ UNCHANGED database
    /\ UNCHANGED <<env, bookings, message_logs, sent, started, now>>

\* No server process has started yet and database.sqlite is not there: the
\* first initializeDatabase creates it with empty tables.
DbInit ==
    /\ env \in Envs({0}, {Undefined}, {"EAAG"}, {"1055"})
    /\ database = [p \in Processes |-> Off]
    /\ operators = <<>>
    /\ routes = <<>>
    /\ bookings = <<>>
    /\ message_logs = <<>>
    /\ sent = EmptyBag
    /\ tasks = [h \in Slots |-> IdleTask]
    /\ started = 0
    /\ now = 0

DbNext ==
    \/ \E p \in Processes :
          \/ StartServer(p)
          \/ StartServerSeed(p)
    \/ \E h \in Slots :
          \/ GetDatabase(h)
          \/ GetDatabaseSeed(h)

DbSpec == DbInit /\ [][DbNext]_vars

(***************************************************************************)
(* Seat accounting of the README: a trip is a route on a journey date, its  *)
(* seats are taken by confirmed bookings and by holds that have not run    *)
(* out.  A hold issued at the present instant has not run out.             *)
(***************************************************************************)
BookingIdsNow == 1..Len(bookings)

Pending(b) == b \in BookingIdsNow /\ bookings[b].status = "pending"

ActiveHold(b) == Pending(b) /\ bookings[b].created_at = now

Terminal(b) == b \in BookingIdsNow /\ bookings[b].status \in {"confirmed", "rejected"}

RECURSIVE SumSeats(_)
SumSeats(S) ==
    IF S = {} THEN 0
    ELSE LET b == CHOOSE x \in S : TRUE
         IN  bookings[b].seat_count + SumSeats(S \ {b})

TripSeats(route_id, journey_date) ==
    SumSeats({ b \in BookingIdsNow :
                 /\ bookings[b].route_id = route_id
                 /\ bookings[b].journey_date = journey_date
                 /\ (bookings[b].status = "confirmed" \/ ActiveHold(b)) })

Available(route_id, journey_date) == SeatQuota - TripSeats(route_id, journey_date)

MediaTypes == {"image", "document"}

\* Task h is the handler of a media message of a recognized operator, which
\* arrives in this step.
MediaFromOperator(h) ==
    /\ Free(h)
    /\ started' = started + 1
    /\ tasks'[h].type \in MediaTypes
    /\ findByPhone(tasks'[h].from) # 0

\* Task h takes a step.
Moves(h) == tasks'[h] # tasks[h]

\* A send of task h, past its insert or status update, fails in this step.
SendFails(h) ==
    /\ tasks[h].pc \in {"notify_operator", "notify_customer"}
    /\ Moves(h)
    /\ sent' = sent

\* The catch block of task h runs in this step.
CatchRuns(h) == tasks[h].pc = "catch" /\ Moves(h)

CustomerGot(kind, b) ==
    BagIn(Msg(normalizePhoneNumber(bookings[b].customer_phone), kind, b), sent)

(***************************************************************************)
(* C1.  Seat quota: for every trip, the seats of its confirmed bookings     *)
(* plus the seats of its active holds never exceed the trip's quota.       *)
(***************************************************************************)
C1_SeatQuota ==
    \A b \in BookingIdsNow :
        TripSeats(bookings[b].route_id, bookings[b].journey_date) <= SeatQuota

(***************************************************************************)
(* C2.  Terminal states: a booking that is confirmed or rejected keeps its  *)
(* status in every later step.                                             *)
(***************************************************************************)
C2_TerminalStates ==
    [][\A b \in BookingIdsNow :
          Terminal(b) => bookings'[b].status = bookings[b].status]_vars

(***************************************************************************)
(* C3.  Confirmation only by ticket: a booking becomes confirmed only in a  *)
(* step of a task that handles an image or document message of a           *)
(* recognized operator.                                                    *)
(***************************************************************************)
C3_ConfirmOnlyByTicket ==
    [][\A b \in BookingIdsNow :
          (bookings[b].status # "confirmed" /\ bookings'[b].status = "confirmed")
              => \E h \in Slots :
                    /\ Moves(h)
                    /\ tasks[h].type \in MediaTypes
                    /\ findByPhone(tasks[h].from) # 0]_vars

(***************************************************************************)
(* C4.  Confirmation by media: when a media message of a recognized         *)
(* operator arrives while a booking is pending, exactly the most recently  *)
(* created pending booking becomes confirmed and no other booking changes. *)
(***************************************************************************)
C4_ConfirmByMedia ==
    [][\A h \in Slots :
          (MediaFromOperator(h) /\ LatestPending # {})
              => \E b \in LatestPending :
                    bookings' = [bookings EXCEPT ![b].status = "confirmed"]]_vars

(***************************************************************************)
(* C5.  Race of a confirmation with a competing terminal transition on one  *)
(* booking: only the winner's effects are applied, so no customer is told  *)
(* both that the booking is confirmed and that it is rejected.             *)
(***************************************************************************)
C5_OnlyWinnersEffects ==
    \A b \in BookingIdsNow :
        ~(CustomerGot("confirmed", b) /\ CustomerGot("rejected", b))

(***************************************************************************)
(* C6.  Hold expiration: a booking that is still pending after its hold     *)
(* has run out (a whole clock unit after its creation) eventually leaves   *)
(* the pending state.                                                      *)
(***************************************************************************)
C6_HoldExpires ==
    \A b \in 1..MaxRequests :
        (Pending(b) /\ now > bookings[b].created_at) ~> ~Pending(b)

(***************************************************************************)
(* C7.  Every inserted booking is pending and carries a hold_expires_at     *)
(* that lies its hold duration (less than a clock unit) after created_at.  *)
(***************************************************************************)
C7_CreatedAsHold ==
    [][Len(bookings') > Len(bookings)
          => LET r == bookings'[Len(bookings')]
             IN  /\ r.status = "pending"
                 /\ "hold_expires_at" \in DOMAIN r
                 /\ r.hold_expires_at \in {r.created_at, r.created_at + 1}]_vars

(***************************************************************************)
(* C8.  Insufficient availability: no booking is inserted for more seats    *)
(* than its trip has available.                                            *)
(***************************************************************************)
C8_InsufficientAvailability ==
    [][Len(bookings') > Len(bookings)
          => LET r == bookings'[Len(bookings')]
             IN  r.seat_count <= Available(r.route_id, r.journey_date)]_vars

(***************************************************************************)
(* C9.  A media message of the operator that arrives while no booking is    *)
(* pending ends its handler at once and changes no booking, writes no      *)
(* message log and sends no message.                                       *)
(***************************************************************************)
C9_MediaNoPending ==
    [][\A h \in Slots :
          (MediaFromOperator(h) /\ ~\E b \in BookingIdsNow : Pending(b))
              => /\ tasks'[h].pc = "done"
                 /\ bookings' = bookings
                 /\ message_logs' = message_logs
                 /\ sent' = sent]_vars

\* A media message of the operator has been handled, a booking exists and
\* none is pending.
C9_Witness ==
    /\ \E h \in Slots :
          /\ tasks[h].pc = "done"
          /\ tasks[h].handler = "ignore"
          /\ tasks[h].type \in MediaTypes
          /\ findByPhone(tasks[h].from) # 0
    /\ bookings # <<>>
    /\ ~\E b \in BookingIdsNow : Pending(b)

(***************************************************************************)
(* C10.  A failed send reverts nothing: the step in which a send fails      *)
(* after the insert or the status update, and the catch block that         *)
(* follows it, leave every booking row as committed.                       *)
(***************************************************************************)
C10_FailedSendKeepsState ==
    [][\A h \in Slots :
          (SendFails(h) \/ CatchRuns(h)) => bookings' = bookings]_vars

\* A send has failed after a status update: the handler is in its catch
\* block and the booking has the status the handler wrote.
C10_Witness ==
    \E h \in Slots :
        /\ tasks[h].pc = "catch"
        /\ IsDecision(h)
        /\ tasks[h].booking # 0
        /\ bookings[tasks[h].booking].status = TargetStatus(tasks[h].handler)

(***************************************************************************)
(* Message logs and outbound messages of a booking.                        *)
(***************************************************************************)
Range(q) == { q[i] : i \in DOMAIN q }

LogRows(b) == { i \in 1..Len(message_logs) : message_logs[i].booking_id = b }

LogCount(b, type) ==
    Cardinality({ i \in LogRows(b) : message_logs[i].type = type })

OperatorGot(kind, b) == BagIn(Msg(OPERATOR_PHONE, kind, b), sent)

\* Reminders the provider accepted for booking b.
ReminderCount(b) ==
    CopiesIn(Msg(normalizePhoneNumber(bookings[b].customer_phone), "reminder", b),
             sent)

\* The host's local time.
LocalNow == now + env.TZ

\* Booking b is confirmed, departs within the next six hours and has no
\* reminder logged.
Eligible(b) ==
    /\ bookings[b].status = "confirmed"
    /\ LocalNow <= Departure(b)
    /\ Departure(b) <= LocalNow + ReminderWindow
    /\ ~HasReminderLog(b)

\* A run of sendReminders begins in slot h in this step.
SweepStarts(h) ==
    /\ FreeSlot(h)
    /\ Moves(h)
    /\ tasks'[h].handler = "sendReminders"

\* The booking a sweep is sending the reminder of.
Reminding(h, b) ==
    /\ tasks[h].handler = "sendReminders"
    /\ tasks[h].pc = "remind"
    /\ Head(tasks[h].queue) = b

(***************************************************************************)
(* C11.  When createBooking of the webhook has run to its end without a     *)
(* failure, the operator and the customer have each been sent their        *)
(* notification and the booking has a message log row for each of the two. *)
(***************************************************************************)
C11_TwoNotificationsLogged ==
    \A h \in Slots :
        LET b == tasks[h].booking
        IN  (/\ tasks[h].handler = "createBooking"
             /\ tasks[h].pc = "done"
             /\ b # 0
             /\ CustomerGot("booking_received", b))
                => /\ OperatorGot("booking_request", b)
                   /\ Cardinality(LogRows(b)) >= 2

(***************************************************************************)
(* C12.  A sweep that begins when a booking has its reminder row does not   *)
(* select that booking, and a reminder is sent only for a booking that a   *)
(* sweep has selected and reached.                                         *)
(***************************************************************************)
C12_ReminderDedup ==
    [][/\ \A h \in Slots :
             SweepStarts(h)
                 => \A b \in BookingIdsNow :
                       HasReminderLog(b) => b \notin Range(tasks'[h].queue)
       /\ \A b \in BookingIdsNow :
             ReminderCount(b)' > ReminderCount(b)
                 => \E h \in Slots : Reminding(h, b)]_vars

\* A sweep is at work, on its own, on a booking of an earlier journey date
\* and has not selected a confirmed booking inside the selection window that
\* has its reminder row: the query orders by journey date, so this sweep
\* began after that row was written.
C12_Witness ==
    \E h \in Slots, b \in BookingIdsNow :
        /\ tasks[h].handler = "sendReminders"
        /\ tasks[h].pc = "remind"
        /\ \A g \in Slots \ {h} : tasks[g].pc \in {"idle", "done"}
        /\ HasReminderLog(b)
        /\ b \notin Range(tasks[h].queue)
        /\ bookings[Head(tasks[h].queue)].journey_date < bookings[b].journey_date
        /\ bookings[b].status = "confirmed"
        /\ DateTimeStr(now) <= Departure(b)
        /\ Departure(b) <= DateTimeStr(now + ReminderWindow)

(***************************************************************************)
(* C13.  Overlapping sweeps: every booking is sent at most one reminder and *)
(* has at most one reminder row.                                           *)
(***************************************************************************)
C13_SweepReentrant ==
    \A b \in BookingIdsNow :
        /\ ReminderCount(b) <= 1
        /\ LogCount(b, "reminder") <= 1

(***************************************************************************)
(* C14.  Every booking a sweep selects is, at the time of the selection,    *)
(* confirmed, due to depart within the next six hours and without a        *)
(* reminder row.                                                           *)
(***************************************************************************)
C14_ReminderEligibility ==
    [][\A h \in Slots :
          SweepStarts(h) => \A b \in Range(tasks'[h].queue) : Eligible(b)]_vars

(***************************************************************************)
(* C15.  At least once: a reminder row is written only after a reminder     *)
(* was accepted; a failed send writes no row and goes on to no log write;  *)
(* and a sweep that begins while a booking is confirmed, inside its six    *)
(* hours and without a reminder row selects that booking.                  *)
(***************************************************************************)
C15_AtLeastOnce ==
    [][/\ \A b \in BookingIdsNow : LogCount(b, "reminder")' <= ReminderCount(b)'
       /\ \A h \in Slots, b \in BookingIdsNow :
             (Reminding(h, b) /\ Moves(h) /\ sent' = sent)
                 => message_logs' = message_logs /\ tasks'[h].pc # "log"
       /\ \A h \in Slots :
             SweepStarts(h)
                 => \A b \in BookingIdsNow :
                       Eligible(b) => b \in Range(tasks'[h].queue)]_vars

(***************************************************************************)
(* C16.  Verification handshake: the response is 200 with the challenge as  *)
(* its body exactly when mode is "subscribe" and the token is there and    *)
(* equals the configured token; it is 400 when mode or token is missing    *)
(* (absent or empty) and 403 otherwise; with the token not configured no   *)
(* request is verified.                                                    *)
(***************************************************************************)
C16_VerifyHandshake ==
    \A h \in Slots :
        tasks[h].handler = "verify"
            => LET q == tasks[h].query
                   secret == env.WEBHOOK_VERIFY_TOKEN
                   matches == /\ q.mode = "subscribe"
                              /\ Truthy(q.token)
                              /\ q.token = secret
                   echoed == /\ tasks[h].resp = 200
                             /\ tasks[h].body = SendBody(q.challenge)
               IN  /\ echoed <=> matches
                   /\ tasks[h].resp = 200 => echoed
                   /\ (~Truthy(q.mode) \/ ~Truthy(q.token)) => tasks[h].resp = 400
                   /\ (Truthy(q.mode) /\ Truthy(q.token) /\ ~matches)
                          => tasks[h].resp = 403
                   /\ ~Truthy(secret) => tasks[h].resp # 200

\* A request with the configured token has been verified and its challenge
\* echoed.
C16_Witness ==
    \E h \in Slots :
        /\ tasks[h].handler = "verify"
        /\ tasks[h].resp = 200
        /\ tasks[h].query.token = env.WEBHOOK_VERIFY_TOKEN
        /\ tasks[h].body = "c1"

\* The handlers a delivery to POST /whatsapp/webhook ends in.
WebhookHandlers ==
    {"invalid", "no_messages", "error", "ignore", "unrecognized",
     "createBooking", "confirmBooking", "rejectBooking"}

\* A delivery to POST /whatsapp/webhook is received by task h in this step.
Arrives(h) ==
    /\ Free(h)
    /\ started' = started + 1
    /\ tasks'[h].handler \in WebhookHandlers

(***************************************************************************)
(* C17.  Acknowledge, then process: the step that receives a delivery       *)
(* answers 200 and writes no table and sends no message; every write and   *)
(* every send of the handler comes in a later step; and whatever the       *)
(* handler meets (a malformed payload, a failing lookup, a failing send),  *)
(* the response stays 200 and the handler comes to its end.                *)
(***************************************************************************)
C17_AckThenProcess ==
    [][\A h \in Slots :
          /\ tasks'[h].handler \in WebhookHandlers => tasks'[h].resp = 200
          /\ Arrives(h) => /\ bookings' = bookings
                           /\ message_logs' = message_logs
                           /\ sent' = sent
          /\ (tasks[h].handler \in WebhookHandlers /\ tasks[h].pc = "catch")
                => (Moves(h) => tasks'[h].pc = "done")]_vars

\* A delivery that threw before it reached a handler and a booking request
\* whose send failed have both been answered with 200.
C17_Witness ==
    \E h, g \in Slots :
        /\ tasks[h].handler = "error"
        /\ tasks[h].pc = "done"
        /\ tasks[h].resp = 200
        /\ tasks[g].handler = "createBooking"
        /\ tasks[g].pc = "catch"
        /\ tasks[g].resp = 200

\* The phone number is in the operators table.
IsOperatorPhone(p) == findByPhone(p) # 0

\* The phone number holds none of the characters normalizePhoneNumber strips.
Normalized(p) == \A i \in DOMAIN p : p[i] \notin StripChars

\* A text message is received by task h in this step and reaches the sender
\* lookup.
Classified(h) ==
    /\ Arrives(h)
    /\ tasks'[h].type = "text"
    /\ tasks'[h].handler \notin {"invalid", "no_messages", "error"}

\* The message of task t is no command of its sender's class.
Unrecognized(t) ==
    \/ t.type # "text"
    \/ IsOperatorPhone(t.from) /\ t.text \notin {YES, NO}
    \/ ~IsOperatorPhone(t.from) /\ t.text # BOOK

(***************************************************************************)
(* C18.  Sender classification: a text message is handled under its         *)
(* normalized sender number, as an operator's message when that number is  *)
(* in the operators table (YES confirms, NO rejects, nothing else acts)    *)
(* and as a customer's message otherwise (BOOK creates, nothing else       *)
(* acts); a webhook task changes a status only for the operator's YES or   *)
(* NO and inserts a booking only for a customer's BOOK.                    *)
(***************************************************************************)
C18_SenderClassification ==
    [][\A h \in Slots :
          /\ Classified(h)
                => LET t == tasks'[h]
                   IN  /\ Normalized(t.from)
                       /\ IsOperatorPhone(t.from)
                             => t.handler = IF t.text = YES THEN "confirmBooking"
                                            ELSE IF t.text = NO THEN "rejectBooking"
                                            ELSE "unrecognized"
                       /\ ~IsOperatorPhone(t.from)
                             => t.handler = IF t.text = BOOK THEN "createBooking"
                                            ELSE "unrecognized"
          /\ (Moves(h) /\ tasks[h].handler \in WebhookHandlers)
                => /\ (\E b \in BookingIdsNow :
                           bookings'[b].status # bookings[b].status)
                         => IsOperatorPhone(tasks[h].from) /\ tasks[h].text \in {YES, NO}
                   /\ Len(bookings') > Len(bookings)
                         => ~IsOperatorPhone(tasks[h].from) /\ tasks[h].text = BOOK]_vars

\* A customer's YES or NO has been handled while a booking was pending: the
\* booking is still pending and nothing was sent.
C18_Witness ==
    /\ \E h \in Slots :
          /\ tasks[h].pc = "done"
          /\ tasks[h].type = "text"
          /\ tasks[h].from = <<"7">>
          /\ tasks[h].text \in {YES, NO}
    /\ Len(bookings) = 1
    /\ Pending(1)
    /\ sent = EmptyBag

C20_LogAppendOnly ==
    [][/\ Len(message_logs') >= Len(message_logs)
       /\ \A i \in 1..Len(message_logs) : message_logs'[i] = message_logs[i]]_vars

\* A booking has two rows, of its notification and of its confirmation.
C20_Witness ==
    \E i, j \in 1..Len(message_logs) :
        /\ i < j
        /\ message_logs[i].booking_id = message_logs[j].booking_id
        /\ message_logs[i].type = "notification"
        /\ message_logs[j].type = "confirmation"


(***************************************************************************)
(* C21.  Bookings are never deleted: every step keeps every booking there   *)
(* is under its identifier, and changes of an existing booking nothing but *)
(* its status (customer, route, journey date, seat count and creation time *)
(* stay as inserted).                                                      *)
(***************************************************************************)
C21_BookingsKept ==
    [][/\ Len(bookings') >= Len(bookings)
       /\ \A b \in BookingIdsNow :
             bookings'[b] = [bookings[b] EXCEPT !.status = bookings'[b].status]]_vars

\* A booking for two seats has been added to the stored one and has then
\* been confirmed.
C21_Witness ==
    /\ Len(bookings) = 2
    /\ bookings[1].seat_count = 1
    /\ bookings[2].seat_count = 2
    /\ bookings[2].status = "confirmed"


\* The types of message_logs rows the README lists.
LogTypes ==
    {"hold_notification", "operator_notification", "confirmation", "reminder",
     "rejection"}

(***************************************************************************)
(* C22.  Every row of message_logs has one of the types hold_notification, *)
(* operator_notification, confirmation, reminder, rejection.               *)
(***************************************************************************)
C22_LogTypesClosed ==
    \A i \in 1..Len(message_logs) : message_logs[i].type \in LogTypes


\* messageText of a body in one of the documented formats
DocumentedTexts == { trim(toUpperCase(body)) : body \in DocumentedFormats }

(***************************************************************************)
(* C23.  A customer's message in one of the three documented formats is     *)
(* accepted as a booking request.                                          *)
(***************************************************************************)
C23_FormatsAccepted ==
    \A h \in Slots :
        (/\ tasks[h].handler \in {"createBooking", "unrecognized"}
         /\ ~IsOperatorPhone(tasks[h].from)
         /\ tasks[h].text \in DocumentedTexts)
            => tasks[h].handler = "createBooking"


\* A call of sendMessage is made by task h in this step.
Sends(h) ==
    /\ Free(h)
    /\ started' = started + 1
    /\ tasks'[h].handler = "sendMessage"

\* A credential, the recipient or the text is missing.
Incomplete(q) ==
    \/ ~Truthy(env.ACCESS_TOKEN)
    \/ ~Truthy(env.PHONE_NUMBER_ID)
    \/ q.phoneNumber = <<>>
    \/ ~Truthy(q.message)

(***************************************************************************)
(* C24.  sendMessage returns only when it has posted the request and the    *)
(* provider has accepted it, and only then is the message out; with the    *)
(* access token, the sender identifier, the recipient or the text missing  *)
(* it throws without posting a request; and it throws when the request     *)
(* gets no answer, is refused by the provider or cannot be made.           *)
(***************************************************************************)
C24_SendFailuresSurface ==
    [][\A h \in Slots :
          Sends(h)
              => LET t == tasks'[h]
                     q == t.query
                 IN  /\ t.outcome \in SendOutcomes
                     /\ t.outcome = "ok"
                           => q.answer = "accepted" /\ t.posted = 1 /\ ~Incomplete(q)
                     /\ Incomplete(q) => t.outcome = "fail" /\ t.posted = 0
                     /\ q.answer # "accepted" => t.outcome = "fail"
                     /\ sent' # sent
                           => /\ t.outcome = "ok"
                              /\ sent' = sent (+) SetToBag({Msg(normalizePhoneNumber(
                                                     q.phoneNumber), q.message, 0)})
                     /\ t.outcome = "ok" => sent' # sent]_vars

\* A call has returned and its message is out; a later call has posted its
\* request and thrown for the provider's refusal.
C24_Witness ==
    \E h \in Slots :
        /\ tasks[h].handler = "sendMessage"
        /\ tasks[h].outcome = "fail"
        /\ tasks[h].posted = 1
        /\ tasks[h].query.answer = "rejected"
        /\ BagCardinality(sent) = 1


\* Booking b is pending and no pending booking was created later.
NewestPending(b) ==
    /\ Pending(b)
    /\ \A c \in BookingIdsNow :
          Pending(c) => bookings[c].created_at <= bookings[b].created_at

\* The status the operator's YES or NO asks for.
Decided(handler) == IF handler = "confirmBooking" THEN "confirmed" ELSE "rejected"

DecisionCount(kind, b) ==
    CopiesIn(Msg(normalizePhoneNumber(bookings[b].customer_phone), kind, b), sent)

(***************************************************************************)
(* C26.  Concurrent decisions on one booking: the customer is sent at most  *)
(* one decision message for a booking, and the message sent is that of the *)
(* status the booking has.                                                 *)
(***************************************************************************)
C26_OneDecisionMessage ==
    \A b \in BookingIdsNow :
        /\ DecisionCount("confirmed", b) + DecisionCount("rejected", b) <= 1
        /\ \A kind \in {"confirmed", "rejected"} :
              DecisionCount(kind, b) > 0 => bookings[b].status = kind


(***************************************************************************)
(* C27.  The operator's YES or NO, handled while no booking is pending,     *)
(* changes no booking, writes no message log row and sends nothing, to no  *)
(* customer and not to the operator.                                       *)
(***************************************************************************)
C27_NothingPendingSilent ==
    [][\A h \in Slots :
          (/\ IsDecision(h)
           /\ tasks[h].pc = "find"
           /\ Moves(h)
           /\ ~\E b \in BookingIdsNow : Pending(b))
              => /\ bookings' = bookings
                 /\ message_logs' = message_logs
                 /\ sent' = sent]_vars


\* A customer's BOOK is received by task h in this step.
BookArrives(h) ==
    /\ Arrives(h)
    /\ tasks'[h].type = "text"
    /\ tasks'[h].handler \notin {"invalid", "no_messages", "error"}
    /\ ~IsOperatorPhone(tasks'[h].from)
    /\ tasks'[h].text = BOOK

\* createBooking of task h runs its first stretch in this step.
BookRuns(h) ==
    /\ tasks[h].handler = "createBooking"
    /\ tasks[h].pc = "create"
    /\ Moves(h)

(***************************************************************************)
(* C28.  A customer's BOOK reaches createBooking, and createBooking, when   *)
(* a route exists, inserts one booking under a new identifier: of the      *)
(* sender's normalized phone number, on the route of the lowest id, for    *)
(* one seat, pending; every booking there was stays as it is.  Each        *)
(* delivery of BOOK so adds a booking of its own.                          *)
(***************************************************************************)
C28_BookInsertsOne ==
    [][\A h \in Slots :
          /\ BookArrives(h)
                => tasks'[h].handler = "createBooking" /\ tasks'[h].pc = "create"
          /\ (BookRuns(h) /\ Len(routes) > 0)
                => /\ Len(bookings') = Len(bookings) + 1
                   /\ \A b \in BookingIdsNow : bookings'[b] = bookings[b]
                   /\ tasks'[h].booking = Len(bookings')
                   /\ LET r == bookings'[Len(bookings')]
                      IN  /\ r.customer_phone = tasks[h].from
                          /\ Normalized(r.customer_phone)
                          /\ r.route_id \in 1..Len(routes)
                          /\ \A i \in 1..Len(routes) : r.route_id <= i
                          /\ r.seat_count = 1
                          /\ r.status = "pending"]_vars

\* Two deliveries of BOOK of one customer have each inserted a booking.
C28_Witness ==
    \E h, g \in Slots :
        /\ tasks[h].handler = "createBooking"
        /\ tasks[g].handler = "createBooking"
        /\ tasks[h].text = BOOK
        /\ tasks[g].text = BOOK
        /\ tasks[h].from = tasks[g].from
        /\ tasks[h].booking = 1
        /\ tasks[g].booking = 2
        /\ Len(bookings) = 2
        /\ bookings[1].customer_phone = bookings[2].customer_phone
        /\ bookings[1].journey_date = bookings[2].journey_date


\* The outbox with one more message of the given kind to the sender of task h.
Answered(h, kind) == sent (+) SetToBag({Msg(tasks[h].from, kind, 0)})

C30_ApologyMeansNoBooking ==
    [][\A h \in Slots :
          (/\ tasks[h].handler = "createBooking"
           /\ CatchRuns(h)
           /\ sent' = Answered(h, "booking_error"))
              => tasks[h].booking \notin 1..Len(bookings')]_vars


\* POST /booking/confirm or /booking/reject is received by task h in this
\* step.
HttpDecisionArrives(h) ==
    /\ Free(h)
    /\ started' = started + 1
    /\ tasks'[h].handler \in HttpDecisions

\* A status of the 4xx class.
ClientError(status) == status \in 400..499

(***************************************************************************)
(* C31.  POST /booking/confirm and POST /booking/reject for a booking that  *)
(* is not pending answer with a client error at once and change no         *)
(* booking, write no message log row and send no message.                  *)
(***************************************************************************)
C31_NotPendingRefused ==
    [][\A h \in Slots :
          (/\ HttpDecisionArrives(h)
           /\ tasks'[h].booking \in BookingIdsNow
           /\ ~Pending(tasks'[h].booking))
              => /\ tasks'[h].pc = "done"
                 /\ ClientError(tasks'[h].resp)
                 /\ bookings' = bookings
                 /\ message_logs' = message_logs
                 /\ sent' = sent]_vars

\* A booking has been confirmed and its customer told so; a later request
\* that names it has been refused and the booking is as it was.
C31_Witness ==
    \E h \in Slots :
        /\ tasks[h].handler \in HttpDecisions
        /\ tasks[h].pc = "done"
        /\ tasks[h].resp = 400
        /\ tasks[h].booking = 1
        /\ bookings[1].status = "confirmed"
        /\ DecisionCount("confirmed", 1) = 1
        /\ DecisionCount("rejected", 1) = 0


\* Task h, a request to POST /booking/confirm or /booking/reject that found
\* its booking pending, responds in this step.
HttpDecisionResponds(h) ==
    /\ tasks[h].handler \in HttpDecisions
    /\ tasks[h].pc \notin {"idle", "done"}
    /\ Moves(h)
    /\ tasks'[h].pc = "done"

(***************************************************************************)
(* C32.  Response matches state: when POST /booking/confirm or              *)
(* /booking/reject responds with a 4xx or 5xx status, its booking has the  *)
(* status it had when the request arrived.                                 *)
(***************************************************************************)
C32_ErrorMeansUnchanged ==
    [][\A h \in Slots :
          (HttpDecisionResponds(h) /\ tasks'[h].resp >= 400)
              => bookings'[tasks[h].booking].status = "pending"]_vars


\* POST /booking/create is received by task h in this step.
HttpCreateArrives(h) ==
    /\ Free(h)
    /\ started' = started + 1
    /\ tasks'[h].handler = "http_create"

\* The request names no customer, or a route that is not in the table.
Unacceptable(q) ==
    \/ q.customer_phone = <<>>
    \/ q.route_id # 0 /\ q.route_id \notin 1..Len(routes)

(***************************************************************************)
(* C33.  POST /booking/create without customer_phone, or with a route_id    *)
(* that matches no route, responds with an error at once and inserts no    *)
(* booking, writes no message log row and sends no message.                *)
(***************************************************************************)
C33_CreateRefused ==
    [][\A h \in Slots :
          (HttpCreateArrives(h) /\ Unacceptable(tasks'[h].query))
              => /\ tasks'[h].pc = "done"
                 /\ tasks'[h].resp >= 400
                 /\ bookings' = bookings
                 /\ message_logs' = message_logs
                 /\ sent' = sent]_vars

\* A request for a route that is not there has been answered 404 and the
\* store is as it was at the start.
C33_Witness ==
    /\ \E h \in Slots :
          /\ tasks[h].handler = "http_create"
          /\ tasks[h].pc = "done"
          /\ tasks[h].query.customer_phone = <<"7">>
          /\ tasks[h].query.route_id = 2
          /\ tasks[h].resp = 404
    /\ bookings \in InitialBookings
    /\ message_logs = <<>>
    /\ sent = EmptyBag


(***************************************************************************)
(* C34.  Seat-count invariant: every booking in the store has a seat count  *)
(* of at least 1.                                                          *)
(***************************************************************************)
C34_SeatCountPositive ==
    \A b \in BookingIdsNow : bookings[b].seat_count >= 1


\* Messages the provider accepted that a row of the given type stands for.
SentFor(type, b) ==
    CASE type = "notification" -> CopiesIn(Msg(OPERATOR_PHONE, "booking_request", b), sent)
      [] type = "confirmation" -> DecisionCount("confirmed", b)
      [] type = "rejection" -> DecisionCount("rejected", b)
      [] type = "reminder" -> ReminderCount(b)
      [] OTHER -> 0

\* Every row is of a booking and stands for a send that has returned, and no
\* booking has more rows of a type than such sends.
LogSound ==
    /\ \A i \in 1..Len(message_logs) :
          /\ message_logs[i].booking_id \in BookingIdsNow
          /\ SentFor(message_logs[i].type, message_logs[i].booking_id) > 0
    /\ \A b \in BookingIdsNow :
          \A type \in {"notification", "confirmation", "rejection", "reminder"} :
             LogCount(b, type) <= SentFor(type, b)

(***************************************************************************)
(* C35.  Audit-log soundness: a booking has at most as many message log     *)
(* rows of a type as sends of the message of that type have returned for   *)
(* it, so no row stands for a send that failed or was never made; and a    *)
(* row is written only by a task whose own send has returned.              *)
(***************************************************************************)
C35_LogAfterSend ==
    [][/\ LogSound'
       /\ Len(message_logs') > Len(message_logs)
             => \E h \in Slots : tasks[h].pc = "log" /\ Moves(h) /\ sent' = sent]_vars

\* The confirmation of a booking was sent and logged, and a rejection of
\* the same booking, whose send failed, has no row.
C35_Witness ==
    \E h \in Slots :
        /\ tasks[h].handler = "rejectBooking"
        /\ tasks[h].pc = "catch"
        /\ tasks[h].booking = 1
        /\ LogCount(1, "confirmation") = 1
        /\ DecisionCount("confirmed", 1) = 1
        /\ DecisionCount("rejected", 1) = 0
        /\ LogCount(1, "rejection") = 0


\* The sweep of task h takes a step.
SweepMoves(h) ==
    /\ tasks[h].handler = "sendReminders"
    /\ tasks[h].pc \in {"remind", "log"}
    /\ Moves(h)

(***************************************************************************)
(* C36.  Reminder sweep isolation: whatever a step of a sweep meets (a      *)
(* missing route, a failed send, a failed log write), the sweep goes on:   *)
(* it either stays with its booking to write the row of a reminder that    *)
(* was sent, or turns to the next selected booking, and it ends only       *)
(* after the last one, without raising.                                    *)
(***************************************************************************)
C36_SweepIsolation ==
    [][\A h \in Slots :
          SweepMoves(h)
              => LET t == tasks[h]
                     u == tasks'[h]
                 IN  /\ u.handler = "sendReminders"
                     /\ u.pc \in {"remind", "log", "done"}
                     /\ u.pc = "log"
                           => t.pc = "remind" /\ u.queue = t.queue /\ sent' # sent
                     /\ u.pc = "remind" => u.queue = Tail(t.queue)
                     /\ u.pc = "done" => Len(t.queue) = 1
                     /\ (t.pc = "remind" /\ sent' = sent /\ Len(t.queue) > 1)
                           => u.pc = "remind" /\ Head(u.queue) = t.queue[2]]_vars

\* The only sweep there has been selected two bookings, has failed to send
\* the reminder of the first and is at work on the second.
C36_Witness ==
    \E h \in Slots :
        /\ tasks[h].handler = "sendReminders"
        /\ tasks[h].pc = "remind"
        /\ tasks[h].queue = <<2>>
        /\ \A g \in Slots \ {h} : tasks[g].pc = "idle"
        /\ ReminderCount(1) = 0
        /\ ~HasReminderLog(1)
        /\ bookings[1].journey_date < bookings[2].journey_date


(***************************************************************************)
(* C37.  Store singleton: in a server process the database is initialized   *)
(* at most once through getDatabase, and every caller of getDatabase       *)
(* receives the same instance.                                             *)
(***************************************************************************)
C37_StoreSingleton ==
    \A p \in Processes :
        /\ database[p].initializations <= 1
        /\ Cardinality(database[p].received) <= 1

\* An initialization is at its seeding.
Seeding ==
    \/ \E p \in Processes : database[p].pc \in SeedPcs
    \/ \E h \in Slots : tasks[h].pc \in SeedPcs

\* An initialization has failed: the start-up of a process, or a call of
\* getDatabase.
SeedFailed ==
    \/ \E p \in Processes : database[p].pc = "exited"
    \/ \E h \in Slots : tasks[h].handler = "getDatabase" /\ tasks[h].outcome = "fail"

\* The rows of the configured operator, and the routes of operator o.
OperatorRows == {i \in 1..Len(operators) : operators[i].phone_number = OPERATOR_PHONE}

RouteRows(o) == {i \in 1..Len(routes) : routes[i].operator_id = o}

(***************************************************************************)
(* C38.  Seeding is idempotent: no initialization fails because the data    *)
(* is there, and once initializations have run and none is in progress the *)
(* store holds exactly one operator of the configured phone and exactly    *)
(* one default route of that operator.                                     *)
(***************************************************************************)
C38_SeedIdempotent ==
    /\ ~SeedFailed
    /\ ((\E p \in Processes : database[p].pc = "listening") /\ ~Seeding)
          => /\ Cardinality(OperatorRows) = 1
             /\ \A o \in OperatorRows : Cardinality(RouteRows(o)) = 1

=============================================================================
